---- MODULE Spec2Model ----
(***************************************************************************)
(* The insurance back office: the SQLite tables clients, products,         *)
(* client_products (policies) and claims, and the HTTP handlers of         *)
(* routes/clients.js, routes/policies.js, routes/products.js and           *)
(* routes/claims.js that read and write them.                              *)
(*                                                                         *)
(* Conventions.                                                            *)
(*  - A table is a set of rows; a row is a record of the columns the       *)
(*    handlers read or write (names, contact data and the created_at /     *)
(*    updated_at / start_date stamps take part in no decision).            *)
(*  - A date is the integer yyyymmdd.  The code keeps dates as ISO strings *)
(*    'yyyy-mm-dd' and compares them as strings; on such strings the       *)
(*    string order is the order of the integers.  0 is SQL NULL.           *)
(*  - A text column that is NULL holds the string "NULL".                  *)
(*  - An optional request field is a set: {} when the body does not carry  *)
(*    it, {v} when it does.                                                *)
(*  - A policy or claim number is a triple <<prefix, day, ms>>; a          *)
(*    generated one is <<"POL-", now, scenario>>, the rendering of Date.now(). *)
(*  - The server's clock runs in UTC, so new Date() and DATE('now') agree  *)
(*    on the current date.                                                 *)
(*  - Every handler runs to completion before the next request is served.  *)
(***************************************************************************)
EXTENDS Integers, Sequences, FiniteSets, TLC

VARIABLES
    clients,          \* rows of table clients: [id, status]
    products,         \* rows of table products: [id, coverage]
    client_products,  \* rows of table client_products (the policies)
    claims,           \* rows of table claims
    seq_policies,     \* sqlite_sequence of client_products (AUTOINCREMENT)
    seq_claims,       \* sqlite_sequence of claims (AUTOINCREMENT)
    now,              \* the clock: <<the current date (UTC), the millisecond of it>>
    last,             \* the response to the last request, when it is observed
    scenario,         \* what the requests carry, the times of the clock, the
                      \* operations whose responses are observed
    inflight          \* the requests whose first query has answered and whose
                      \* write is queued: the callbacks waiting on the database

vars == <<clients, products, client_products, claims, seq_policies, seq_claims,
          now, last, scenario, inflight>>

\* new Date() / DATE('now') / CURRENT_DATE
today == now[1]

----------------------------------------------------------------------------
(* Bounds of the model *)

\* rows ever inserted into client_products
MaxPolicies == 1
\* rows ever inserted into claims
MaxClaims == 1

\* the ids of the clients and of the products the database starts with
ClientIds == {1, 2}
ProductIds == {1}

NULL == 0
NULLTEXT == "NULL"
NoNumber == <<>>

Has(x) == x # {}
Val(x) == CHOOSE v \in x : TRUE
Opt(S) == {{}} \cup {{v} : v \in S}

----------------------------------------------------------------------------
(* Dates *)

Year(d) == d \div 10000
Month(d) == (d \div 100) % 100
Day(d) == d % 100
MkDate(y, m, d) == y * 10000 + m * 100 + d

IsLeap(y) == (y % 4 = 0 /\ y % 100 # 0) \/ y % 400 = 0

DaysInMonth(y, m) ==
    IF m = 2 THEN (IF IsLeap(y) THEN 29 ELSE 28)
    ELSE IF m \in {4, 6, 9, 11} THEN 30 ELSE 31

\* Date.prototype.setMonth(getMonth() + n) followed by toISOString().split('T')[0]:
\* the month index moves by n with the year carried, the day of the month is
\* kept, and a day past the end of the target month runs on into the month
\* after it (MakeDay adds the day to the first of the target month).
SetMonthPlus(date, n) ==
    LET mi == (Month(date) - 1) + n
        y  == Year(date) + (mi \div 12)
        m  == (mi % 12) + 1
        d  == Day(date)
        dim == DaysInMonth(y, m)
    IN  IF d <= dim THEN MkDate(y, m, d)
        ELSE IF m = 12 THEN MkDate(y + 1, 1, d - dim)
        ELSE MkDate(y, m + 1, d - dim)

----------------------------------------------------------------------------
(* Rows and lookups *)

\* A list of client statuses that took over a status of the policies.
ClientStatusesAndSuspended == {"active", "inactive", "suspended"}
\* A list of policy statuses that lost its last entry.
PolicyStatusesButSuspended == {"active", "inactive", "cancelled", "expired"}

ClientStatuses == {"active", "inactive"}
PolicyStatuses == {"active", "inactive", "cancelled", "expired", "suspended"}
ClaimStatuses == {"pending", "approved", "rejected"}

\* PRAGMA foreign_keys is per connection and defaults to off; the server's
\* connection never sets it (only the init-db script's own process does), so
\* no REFERENCES clause is enforced and no ON DELETE CASCADE runs.
foreign_keys == FALSE

ClientRow(id) == CHOOSE c \in clients : c.id = id
ProductRow(id) == CHOOSE p \in products : p.id = id
PolicyRow(id) == CHOOSE cp \in client_products : cp.id = id
ClaimRow(id) == CHOOSE c \in claims : c.id = id

ClientExists(id) == \E c \in clients : c.id = id
ProductExists(id) == \E p \in products : p.id = id
PolicyExists(id) == \E cp \in client_products : cp.id = id
ClaimExists(id) == \E c \in claims : c.id = id


\* UPDATE <table> SET ... WHERE id = ?
UpdateRow(table, id, new) == {IF r.id = id THEN new ELSE r : r \in table}
\* DELETE FROM <table> WHERE id = ?
DeleteRow(table, id) == {r \in table : r.id # id}

\* The policies linking a client and a product, whatever their status.
PoliciesFor(client_id, product_id) ==
    {cp \in client_products : cp.client_id = client_id
                              /\ cp.product_id = product_id}

\* The active policies linking a client and a product.
ActivePoliciesFor(client_id, product_id) ==
    {cp \in client_products : cp.client_id = client_id
                              /\ cp.product_id = product_id
                              /\ cp.status = "active"}

\* Date.now() rendered into an identifier that lacks the prefix.
GeneratedNumberBare(prefix) == <<"", now[1], now[2]>>

\* Date.now() rendered into an identifier.
GeneratedNumber(prefix) == <<prefix, now[1], now[2]>>

\* The error a creation sends when its insert fails for a reason that is no
\* constraint.
insert_error(op) ==
    CASE op = "createClaim" -> "Failed to create claim"
      [] op = "createPolicy" -> "Failed to create policy"
      [] op = "addClientPolicy" -> "Failed to add policy"

\* A creation that answers a failed read of the new row like a failed insert.
fetch_error_as_insert_error(op) == insert_error(op)

\* The error a creation sends when the insert is done and the read of the new
\* row fails.
fetch_error(op) ==
    CASE op = "createClaim" -> "Claim created but failed to fetch"
      [] op = "createPolicy" -> "Policy created but failed to fetch details"
      [] op = "addClientPolicy" -> "Policy created but failed to fetch"

\* res.status(code).json(...): the response is kept when the scenario observes
\* the operation.
Respond(reply) ==
    last' = IF reply.op \in scenario.observed THEN reply ELSE [op |-> "none"]

----------------------------------------------------------------------------
(* routes/auth.js and the routers' middleware *)

\* A request without an Authorization header.
NoToken == "none"

\* jwt.verify(token, JWT_SECRET): only a token that is signed and not expired
\* passes.
jwt_verify(token) == token = "valid"

\* The middleware: 401 without a token, 403 for a token that does not verify,
\* else next().
authenticateToken(op, token, next) ==
    IF token = NoToken
    THEN /\ Respond([op |-> op, code |-> 401, error |-> "Access token required"])
         /\ UNCHANGED <<clients, products, client_products, claims, seq_policies,
                        seq_claims, now, scenario>>
    ELSE IF ~jwt_verify(token)
    THEN /\ Respond([op |-> op, code |-> 403, error |-> "Invalid or expired token"])
         /\ UNCHANGED <<clients, products, client_products, claims, seq_policies,
                        seq_claims, now, scenario>>
    ELSE next

\* router.use(...): the middleware each router installs before its routes.
router_use ==
    [clients |-> {"authenticateToken"}, policies |-> {"authenticateToken"},
     claims |-> {}, products |-> {}]

\* A request to a route of a router passes the router's middleware, then the
\* route's handler.  Here the handler runs to its response before any other
\* request is served, so no callback is left waiting.
Request(router, op, token, handler) ==
    /\ UNCHANGED inflight
    /\ IF "authenticateToken" \in router_use[router]
       THEN authenticateToken(op, token, handler)
       ELSE handler

----------------------------------------------------------------------------
(* Initial state: a database holding clients and products, no policy and   *)
(* no claim yet; the server starts at any of the scenario's times.         *)
(* A scenario R names the clients the requests address, the values they   *)
(* carry, the times the clock passes through and the ways the database may *)
(* fail a creation: "none", at the "insert", or at the "fetch" after it,   *)
(* and the tokens the requests carry.                                      *)

InitFor(R) ==
    /\ scenario = R
    /\ clients = {[id |-> i, status |-> "active"] : i \in ClientIds}
    /\ products \in {{[id |-> i, coverage |-> f[i]] : i \in ProductIds} :
                        f \in [ProductIds -> R.coverages]}
    /\ client_products = {}
    /\ claims = {}
    /\ seq_policies = 0
    /\ seq_claims = 0
    /\ now \in {R.times[i] : i \in 1..Len(R.times)}
    /\ last = [op |-> "none"]
    /\ inflight = {}

----------------------------------------------------------------------------
(* routes/claims.js *)

\* An INSERT INTO claims whose row gets no submitted date.
NewClaimRowUndated(client_id, product_id, amount, description, claim_number) ==
    [id |-> seq_claims + 1, client_id |-> client_id, product_id |-> product_id,
     claim_number |-> IF claim_number # NoNumber THEN claim_number
                      ELSE GeneratedNumber("CLM-"),
     amount |-> amount, description |-> description,
     status |-> "pending", submitted_date |-> NULL,
     processed_date |-> NULL, processed_by |-> NULL, notes |-> NULLTEXT]

\* INSERT INTO claims (client_id, product_id, claim_number, amount,
\* description): the other columns take the defaults of CREATE TABLE claims,
\* status 'pending' and submitted_date CURRENT_DATE among them.
NewClaimRow(client_id, product_id, amount, description, claim_number) ==
    [id |-> seq_claims + 1, client_id |-> client_id, product_id |-> product_id,
     claim_number |-> IF claim_number # NoNumber THEN claim_number
                      ELSE GeneratedNumber("CLM-"),
     amount |-> amount, description |-> description,
     status |-> "pending", submitted_date |-> today,
     processed_date |-> NULL, processed_by |-> NULL, notes |-> NULLTEXT]

\* POST /api/claims without the comparison of the amount with the coverage.
CreateClaimAnyAmount(client_id, product_id, amount, description, claim_number) ==
    LET Reply(code, error, max) ==
            [op |-> "createClaim", id |-> seq_claims + 1,
             code |-> code, error |-> error, maxCoverage |-> max]
        row == NewClaimRow(client_id, product_id, amount, description, claim_number)
        finalClaimNumber == row.claim_number
    IN
    /\ UNCHANGED <<clients, products, client_products, seq_policies, now, scenario>>
    /\ IF amount < 0 \/ description = ""
       THEN /\ Respond(Reply(400, "validation", NULL))
            /\ UNCHANGED <<claims, seq_claims>>
       ELSE IF ~(ClientExists(client_id) /\ ProductExists(product_id))
       THEN /\ Respond(Reply(404, "Client or product not found", NULL))
            /\ UNCHANGED <<claims, seq_claims>>
       ELSE IF ActivePoliciesFor(client_id, product_id) = {}
       THEN /\ Respond(Reply(400, "Client does not have an active policy for this product", NULL))
            /\ UNCHANGED <<claims, seq_claims>>
       ELSE IF \E c \in claims : c.claim_number = finalClaimNumber
       THEN /\ Respond(Reply(409, "Claim number already exists", NULL))
            /\ UNCHANGED <<claims, seq_claims>>
       ELSE /\ seq_claims < scenario.max_claims
            /\ claims' = claims \cup {row}
            /\ seq_claims' = seq_claims + 1
            /\ Respond(Reply(201, "", NULL))

\* POST /api/claims
CreateClaim(client_id, product_id, amount, description, claim_number) ==
    LET Reply(code, error, max) ==
            [op |-> "createClaim", id |-> seq_claims + 1,
             code |-> code, error |-> error, maxCoverage |-> max]
        coverage == ProductRow(product_id).coverage
        row == NewClaimRow(client_id, product_id, amount, description, claim_number)
        finalClaimNumber == row.claim_number
    IN
    /\ UNCHANGED <<clients, products, client_products, seq_policies, now, scenario>>
    /\ IF amount < 0 \/ description = ""
       THEN \* express-validator: isFloat({min: 0}), notEmpty()
            /\ Respond(Reply(400, "validation", NULL))
            /\ UNCHANGED <<claims, seq_claims>>
       ELSE IF ~(ClientExists(client_id) /\ ProductExists(product_id))
       THEN /\ Respond(Reply(404, "Client or product not found", NULL))
            /\ UNCHANGED <<claims, seq_claims>>
       ELSE IF ActivePoliciesFor(client_id, product_id) = {}
       THEN /\ Respond(Reply(400, "Client does not have an active policy for this product", NULL))
            /\ UNCHANGED <<claims, seq_claims>>
       ELSE IF amount > coverage
       THEN /\ Respond(Reply(400, "Claim amount exceeds policy coverage", coverage))
            /\ UNCHANGED <<claims, seq_claims>>
       ELSE IF \E c \in claims : c.claim_number = finalClaimNumber
       THEN \* UNIQUE constraint failed: claims.claim_number
            /\ Respond(Reply(409, "Claim number already exists", NULL))
            /\ UNCHANGED <<claims, seq_claims>>
       ELSE /\ seq_claims < scenario.max_claims
            /\ \E e \in scenario.db_errors :
                  IF e = "insert"
                  THEN /\ Respond(Reply(500, insert_error("createClaim"), NULL))
                       /\ UNCHANGED <<claims, seq_claims>>
                  ELSE /\ claims' = claims \cup {row}
                       /\ seq_claims' = seq_claims + 1
                       /\ Respond(IF e = "fetch"
                                  THEN Reply(500, fetch_error("createClaim"), NULL)
                                  ELSE Reply(201, "", NULL))

\* PUT /api/claims/:id/status with a processed date stamped for every target.
UpdateClaimStatusStamping(id, status, notes, processed_by) ==
    LET Reply(code, error) ==
            [op |-> "updateClaimStatus", id |-> id, code |-> code,
             error |-> error]
        old == ClaimRow(id)
        new == [old EXCEPT
                  !.status = status,
                  !.notes = IF Has(notes) /\ Val(notes) # "" THEN Val(notes) ELSE @,
                  !.processed_by = IF Has(processed_by) THEN Val(processed_by) ELSE @,
                  !.processed_date = today]
    IN
    /\ UNCHANGED <<clients, products, client_products, seq_policies, seq_claims,
                   now, scenario>>
    /\ IF status \notin ClaimStatuses
       THEN /\ Respond(Reply(400, "validation"))
            /\ UNCHANGED claims
       ELSE IF ~ClaimExists(id)
       THEN /\ Respond(Reply(404, "Claim not found"))
            /\ UNCHANGED claims
       ELSE /\ claims' = UpdateRow(claims, id, new)
            /\ Respond(Reply(200, ""))

\* PUT /api/claims/:id/status
UpdateClaimStatus(id, status, notes, processed_by) ==
    LET Reply(code, error) ==
            [op |-> "updateClaimStatus", id |-> id, code |-> code,
             error |-> error]
        old == ClaimRow(id)
        \* updateData: status always; notes and processed_by when truthy;
        \* processed_date when the target is not pending
        new == [old EXCEPT
                  !.status = status,
                  !.notes = IF Has(notes) /\ Val(notes) # "" THEN Val(notes) ELSE @,
                  !.processed_by = IF Has(processed_by) THEN Val(processed_by) ELSE @,
                  !.processed_date = IF status # "pending" THEN today ELSE @]
    IN
    /\ UNCHANGED <<clients, products, client_products, seq_policies, seq_claims,
                   now, scenario>>
    /\ IF status \notin ClaimStatuses
       THEN /\ Respond(Reply(400, "validation"))
            /\ UNCHANGED claims
       ELSE IF ~ClaimExists(id)
       THEN \* this.changes === 0
            /\ Respond(Reply(404, "Claim not found"))
            /\ UNCHANGED claims
       ELSE /\ claims' = UpdateRow(claims, id, new)
            /\ Respond(Reply(200, ""))

\* performUpdate of PUT /api/claims/:id: every key of the body becomes a
\* column assignment.
performUpdate(old, updates) ==
    [old EXCEPT
       !.amount = IF Has(updates.amount) THEN Val(updates.amount) ELSE @,
       !.description = IF Has(updates.description) THEN Val(updates.description) ELSE @,
       !.notes = IF Has(updates.notes) THEN Val(updates.notes) ELSE @,
       !.status = IF Has(updates.status) THEN Val(updates.status) ELSE @]

\* updates.amount as a condition: a number is truthy unless it is 0.
AmountTruthy(updates) == Has(updates.amount) /\ Val(updates.amount) # 0

\* PUT /api/claims/:id
UpdateClaimFields(id, updates) ==
    LET Reply(code, error, max) ==
            [op |-> "updateClaimFields", id |-> id, code |-> code,
             error |-> error, maxCoverage |-> max]
        claim == ClaimRow(id)
    IN
    /\ UNCHANGED <<clients, products, client_products, seq_policies, seq_claims,
                   now, scenario>>
    /\ IF \/ (Has(updates.amount) /\ Val(updates.amount) < 0)
          \/ (Has(updates.description) /\ Val(updates.description) = "")
       THEN \* optional().isFloat({min: 0}), optional().notEmpty()
            /\ Respond(Reply(400, "validation", NULL))
            /\ UNCHANGED claims
       ELSE IF ~ClaimExists(id)
       THEN /\ Respond(Reply(404, "Claim not found", NULL))
            /\ UNCHANGED claims
       ELSE IF claim.status # "pending" /\ AmountTruthy(updates)
       THEN /\ Respond(Reply(400, "Cannot modify amount of processed claim", NULL))
            /\ UNCHANGED claims
       ELSE IF AmountTruthy(updates) /\ ~ProductExists(claim.product_id)
       THEN \* product is undefined: reading product.coverage throws inside the
            \* database callback and no response is sent
            /\ Respond(Reply(0, "TypeError", NULL))
            /\ UNCHANGED claims
       ELSE IF AmountTruthy(updates)
               /\ Val(updates.amount) > ProductRow(claim.product_id).coverage
       THEN /\ Respond(Reply(400, "Claim amount exceeds policy coverage",
                            ProductRow(claim.product_id).coverage))
            /\ UNCHANGED claims
       ELSE IF \A k \in DOMAIN updates : ~Has(updates[k])
       THEN /\ Respond(Reply(400, "No fields to update", NULL))
            /\ UNCHANGED claims
       ELSE /\ claims' = UpdateRow(claims, id, performUpdate(claim, updates))
            /\ Respond(Reply(200, "", NULL))

\* DELETE /api/claims/:id without the test of the status.
DeleteClaimAnyStatus(id) ==
    LET Reply(code, error) ==
            [op |-> "deleteClaim", id |-> id, code |-> code, error |-> error]
    IN
    /\ UNCHANGED <<clients, products, client_products, seq_policies, seq_claims,
                   now, scenario>>
    /\ IF ~ClaimExists(id)
       THEN /\ Respond(Reply(404, "Claim not found"))
            /\ UNCHANGED claims
       ELSE /\ claims' = DeleteRow(claims, id)
            /\ Respond(Reply(200, ""))

\* DELETE /api/claims/:id
DeleteClaim(id) ==
    LET Reply(code, error) ==
            [op |-> "deleteClaim", id |-> id, code |-> code, error |-> error]
    IN
    /\ UNCHANGED <<clients, products, client_products, seq_policies, seq_claims,
                   now, scenario>>
    /\ IF ~ClaimExists(id)
       THEN /\ Respond(Reply(404, "Claim not found"))
            /\ UNCHANGED claims
       ELSE IF ClaimRow(id).status # "pending"
       THEN /\ Respond(Reply(400, "Cannot delete processed claim"))
            /\ UNCHANGED claims
       ELSE /\ claims' = DeleteRow(claims, id)
            /\ Respond(Reply(200, ""))

----------------------------------------------------------------------------
(* routes/policies.js *)

\* The columns of CREATE TABLE client_products.
client_products_columns ==
    {"id", "client_id", "product_id", "policy_number", "start_date", "end_date",
     "status", "created_at"}

\* INSERT INTO client_products: the constraint the new row violates, if any.
\* UNIQUE(policy_number) and UNIQUE(client_id, product_id); the FOREIGN KEY
\* clauses count only on a connection that enforces them.
InsertPolicyError(row) ==
    IF \E cp \in client_products :
          \/ cp.policy_number = row.policy_number
          \/ (cp.client_id = row.client_id /\ cp.product_id = row.product_id)
    THEN "UNIQUE constraint failed"
    ELSE IF foreign_keys /\ ~(ClientExists(row.client_id) /\ ProductExists(row.product_id))
    THEN "FOREIGN KEY constraint failed"
    ELSE ""

NewPolicyRow(client_id, product_id, policy_number, end_date) ==
    [id |-> seq_policies + 1, client_id |-> client_id, product_id |-> product_id,
     policy_number |-> IF policy_number # NoNumber THEN policy_number
                       ELSE GeneratedNumber("POL-"),
     end_date |-> IF Has(end_date) THEN Val(end_date) ELSE NULL,
     status |-> "active"]

\* POST /api/policies
CreatePolicy(client_id, product_id, policy_number, end_date) ==
    LET Reply(code, error) ==
            [op |-> "createPolicy", id |-> seq_policies + 1,
             code |-> code, error |-> error]
        row == NewPolicyRow(client_id, product_id, policy_number, end_date)
    IN
    /\ UNCHANGED <<clients, products, claims, seq_claims, now, scenario>>
    /\ IF client_id = 0 \/ product_id = 0
       THEN /\ Respond(Reply(400, "Client ID and Product ID are required"))
            /\ UNCHANGED <<client_products, seq_policies>>
       ELSE IF InsertPolicyError(row) # ""
       THEN \* err.code === 'SQLITE_CONSTRAINT'
            /\ Respond(Reply(400, "Policy number already exists or invalid client/product"))
            /\ UNCHANGED <<client_products, seq_policies>>
       ELSE /\ seq_policies < scenario.max_policies
            /\ \E e \in scenario.db_errors :
                  IF e = "insert"
                  THEN /\ Respond(Reply(500, insert_error("createPolicy")))
                       /\ UNCHANGED <<client_products, seq_policies>>
                  ELSE /\ client_products' = client_products \cup {row}
                       /\ seq_policies' = seq_policies + 1
                       /\ Respond(IF e = "fetch"
                                  THEN Reply(500, fetch_error("createPolicy"))
                                  ELSE Reply(201, ""))

\* POST /api/clients/:id/policies
AddClientPolicy(id, product_id, policy_number, end_date) ==
    LET Reply(code, error) ==
            [op |-> "addClientPolicy", id |-> seq_policies + 1,
             code |-> code, error |-> error]
        row == NewPolicyRow(id, product_id, policy_number, end_date)
    IN
    /\ UNCHANGED <<clients, products, claims, seq_claims, now, scenario>>
    /\ IF product_id < 1
       THEN \* isInt({min: 1})
            /\ Respond(Reply(400, "validation"))
            /\ UNCHANGED <<client_products, seq_policies>>
       ELSE IF InsertPolicyError(row) = "UNIQUE constraint failed"
       THEN /\ Respond(Reply(409, "Policy already exists for this client and product"))
            /\ UNCHANGED <<client_products, seq_policies>>
       ELSE IF InsertPolicyError(row) # ""
       THEN /\ Respond(Reply(500, "Failed to add policy"))
            /\ UNCHANGED <<client_products, seq_policies>>
       ELSE /\ seq_policies < scenario.max_policies
            /\ \E e \in scenario.db_errors :
                  IF e = "insert"
                  THEN /\ Respond(Reply(500, insert_error("addClientPolicy")))
                       /\ UNCHANGED <<client_products, seq_policies>>
                  ELSE /\ client_products' = client_products \cup {row}
                       /\ seq_policies' = seq_policies + 1
                       /\ Respond(IF e = "fetch"
                                  THEN Reply(500, fetch_error("addClientPolicy"))
                                  ELSE Reply(201, ""))

\* PUT /api/policies/:id/status
UpdatePolicyStatus(id, status) ==
    LET Reply(code, error) ==
            [op |-> "updatePolicyStatus", id |-> id,
             code |-> code, error |-> error]
    IN
    /\ UNCHANGED <<clients, products, claims, seq_policies, seq_claims, now,
                   scenario>>
    /\ IF status \notin PolicyStatuses
       THEN /\ Respond(Reply(400, "Invalid status"))
            /\ UNCHANGED client_products
       ELSE IF ~PolicyExists(id)
       THEN /\ Respond(Reply(404, "Policy not found"))
            /\ UNCHANGED client_products
       ELSE /\ client_products' =
                   UpdateRow(client_products, id, [PolicyRow(id) EXCEPT !.status = status])
            /\ Respond(Reply(200, ""))

\* PUT /api/policies/:id
\* COALESCE(?, column): a field the body does not carry keeps the column.
\* A status that is the empty string is falsy and skips the validation.
UpdatePolicy(id, policy_number, end_date, status) ==
    LET Reply(code, error) ==
            [op |-> "updatePolicy", id |-> id, code |-> code,
             error |-> error]
        old == PolicyRow(id)
        new == [old EXCEPT
                  !.policy_number = IF policy_number # NoNumber THEN policy_number ELSE @,
                  !.end_date = IF Has(end_date) THEN Val(end_date) ELSE @,
                  !.status = IF Has(status) THEN Val(status) ELSE @]
    IN
    /\ UNCHANGED <<clients, products, claims, seq_policies, seq_claims, now,
                   scenario>>
    /\ IF Has(status) /\ Val(status) # "" /\ Val(status) \notin PolicyStatuses
       THEN /\ Respond(Reply(400, "Invalid status"))
            /\ UNCHANGED client_products
       ELSE IF ~PolicyExists(id)
       THEN /\ Respond(Reply(404, "Policy not found"))
            /\ UNCHANGED client_products
       ELSE IF \E cp \in client_products :
                  cp.id # id /\ cp.policy_number = new.policy_number
       THEN /\ Respond(Reply(400, "Policy number already exists"))
            /\ UNCHANGED client_products
       ELSE /\ client_products' = UpdateRow(client_products, id, new)
            /\ Respond(Reply(200, ""))

\* The columns the UPDATE of PUT /api/policies/:id/renew assigns.
renew_columns == {"end_date", "status", "updated_at"}

\* PUT /api/policies/:id/renew
\* The statement is prepared before any row is looked at: naming a column the
\* table does not have is an error whatever the id.
RenewPolicy(id, renewal_period_months, new_end_date) ==
    LET Reply(code, error) ==
            [op |-> "renewPolicy", id |-> id, code |-> code,
             error |-> error]
        months == IF Has(renewal_period_months) THEN Val(renewal_period_months) ELSE 12
        endDate == IF Has(new_end_date) THEN Val(new_end_date)
                   ELSE SetMonthPlus(today, months)
    IN
    /\ UNCHANGED <<clients, products, claims, seq_policies, seq_claims, now,
                   scenario>>
    /\ IF ~(renew_columns \subseteq client_products_columns)
       THEN \* SQLITE_ERROR: no such column
            /\ Respond(Reply(500, "Failed to renew policy"))
            /\ UNCHANGED client_products
       ELSE IF ~PolicyExists(id)
       THEN /\ Respond(Reply(404, "Policy not found"))
            /\ UNCHANGED client_products
       ELSE /\ client_products' =
                   UpdateRow(client_products, id,
                             [PolicyRow(id) EXCEPT !.end_date = endDate,
                                                   !.status = "active"])
            /\ Respond(Reply(200, ""))

\* DELETE /api/policies/:id
DeletePolicy(id) ==
    LET Reply(code, error) ==
            [op |-> "deletePolicy", id |-> id, code |-> code, error |-> error]
    IN
    /\ UNCHANGED <<clients, products, claims, seq_policies, seq_claims, now,
                   scenario>>
    /\ IF ~PolicyExists(id)
       THEN /\ Respond(Reply(404, "Policy not found"))
            /\ UNCHANGED client_products
       ELSE /\ client_products' = DeleteRow(client_products, id)
            /\ Respond(Reply(200, ""))

\* DELETE /api/clients/:id/policies/:policyId
RemoveClientPolicy(id, policyId) ==
    LET Reply(code, error) ==
            [op |-> "removeClientPolicy", id |-> policyId, client_id |-> id,
             code |-> code, error |-> error]
    IN
    /\ UNCHANGED <<clients, products, claims, seq_policies, seq_claims, now,
                   scenario>>
    /\ IF ~(PolicyExists(policyId) /\ PolicyRow(policyId).client_id = id)
       THEN /\ Respond(Reply(404, "Policy not found"))
            /\ UNCHANGED client_products
       ELSE /\ client_products' = DeleteRow(client_products, policyId)
            /\ Respond(Reply(200, ""))

----------------------------------------------------------------------------
(* routes/clients.js *)

\* PUT /api/clients/:id/status
UpdateClientStatus(id, status) ==
    LET Reply(code, error) ==
            [op |-> "updateClientStatus", id |-> id,
             code |-> code, error |-> error]
    IN
    /\ UNCHANGED <<products, client_products, claims, seq_policies, seq_claims, now, scenario>>
    /\ IF status \notin ClientStatuses
       THEN /\ Respond(Reply(400, "Invalid status"))
            /\ UNCHANGED clients
       ELSE IF ~ClientExists(id)
       THEN /\ Respond(Reply(404, "Client not found"))
            /\ UNCHANGED clients
       ELSE /\ clients' = UpdateRow(clients, id, [ClientRow(id) EXCEPT !.status = status])
            /\ Respond(Reply(200, ""))

\* SELECT COUNT(*) FROM client_products WHERE client_id = ? AND status = 'active'
\* A count of the active policies of a client that leaves out those whose end
\* date has passed.
unexpired_active_policies(id) ==
    Cardinality({cp \in client_products :
                    /\ cp.client_id = id
                    /\ cp.status = "active"
                    /\ ~(cp.end_date # NULL /\ cp.end_date < today)})

active_policies(id) ==
    Cardinality({cp \in client_products : cp.client_id = id /\ cp.status = "active"})

\* SELECT COUNT(*) FROM claims WHERE client_id = ? AND status = 'pending'
\* A count of the claims of a client that forgets the status.
claims_of_client(id) ==
    Cardinality({c \in claims : c.client_id = id})

pending_claims(id) ==
    Cardinality({c \in claims : c.client_id = id /\ c.status = "pending"})

\* DELETE /api/clients/:id
DeleteClient(id) ==
    LET Reply(code, error, ap, pc) ==
            [op |-> "deleteClient", id |-> id, code |-> code, error |-> error,
             activePolicies |-> ap, pendingClaims |-> pc]
    IN
    /\ UNCHANGED <<products, seq_policies, seq_claims, now, scenario>>
    /\ IF active_policies(id) > 0 \/ pending_claims(id) > 0
       THEN /\ Respond(Reply(409, "Cannot delete client with active policies or pending claims",
                            active_policies(id), pending_claims(id)))
            /\ UNCHANGED <<clients, client_products, claims>>
       ELSE IF ~ClientExists(id)
       THEN /\ Respond(Reply(404, "Client not found", 0, 0))
            /\ UNCHANGED <<clients, client_products, claims>>
       ELSE /\ clients' = DeleteRow(clients, id)
            /\ client_products' = IF foreign_keys
                                  THEN {cp \in client_products : cp.client_id # id}
                                  ELSE client_products
            /\ claims' = IF foreign_keys
                         THEN {c \in claims : c.client_id # id}
                         ELSE claims
            /\ Respond(Reply(200, "", 0, 0))

----------------------------------------------------------------------------
(* routes/products.js *)

\* PUT /api/products/:id, for a body that carries at most a coverage
UpdateProduct(id, coverage) ==
    LET Reply(code, error) ==
            [op |-> "updateProduct", id |-> id,
             code |-> code, error |-> error]
    IN
    /\ UNCHANGED <<clients, client_products, claims, seq_policies, seq_claims, now, scenario>>
    /\ IF Has(coverage) /\ Val(coverage) < 0
       THEN /\ Respond(Reply(400, "validation"))
            /\ UNCHANGED products
       ELSE IF ~Has(coverage)
       THEN /\ Respond(Reply(400, "No fields to update"))
            /\ UNCHANGED products
       ELSE IF ~ProductExists(id)
       THEN /\ Respond(Reply(404, "Product not found"))
            /\ UNCHANGED products
       ELSE /\ products' = UpdateRow(products, id,
                                     [ProductRow(id) EXCEPT !.coverage = Val(coverage)])
            /\ Respond(Reply(200, ""))

\* SELECT COUNT(*) FROM client_products WHERE product_id = ? AND status = "active"
\* A count of the policies of a product that forgets the status.
policies_of_product(id) ==
    Cardinality({cp \in client_products : cp.product_id = id})

active_policies_of_product(id) ==
    Cardinality({cp \in client_products : cp.product_id = id /\ cp.status = "active"})

\* DELETE /api/products/:id
DeleteProduct(id) ==
    LET Reply(code, error, n) ==
            [op |-> "deleteProduct", id |-> id, code |-> code, error |-> error,
             activePoliciessCount |-> n]
    IN
    /\ UNCHANGED <<clients, seq_policies, seq_claims, now, scenario>>
    /\ IF active_policies_of_product(id) > 0
       THEN /\ Respond(Reply(409, "Cannot delete product with active policies",
                            active_policies_of_product(id)))
            /\ UNCHANGED <<products, client_products, claims>>
       ELSE IF ~ProductExists(id)
       THEN /\ Respond(Reply(404, "Product not found", 0))
            /\ UNCHANGED <<products, client_products, claims>>
       ELSE /\ products' = DeleteRow(products, id)
            /\ client_products' = IF foreign_keys
                                  THEN {cp \in client_products : cp.product_id # id}
                                  ELSE client_products
            /\ claims' = IF foreign_keys
                         THEN {c \in claims : c.product_id # id}
                         ELSE claims
            /\ Respond(Reply(200, "", 0))

----------------------------------------------------------------------------
(* Reads.  A read changes nothing, so it is the value the handler would     *)
(* send in the current state.                                              *)

\* The same CASE with the end date itself counted as past.
CaseStatusThroughToday(cp) ==
    IF cp.end_date # NULL /\ cp.end_date <= today /\ cp.status = "active"
    THEN "expired"
    ELSE cp.status

\* CASE WHEN cp.end_date IS NOT NULL AND cp.end_date < DATE('now')
\*           AND cp.status = 'active' THEN 'expired' ELSE cp.status END
CaseStatus(cp) ==
    IF cp.end_date # NULL /\ cp.end_date < today /\ cp.status = "active"
    THEN "expired"
    ELSE cp.status

\* INNER JOIN clients c ON cp.client_id = c.id
\* INNER JOIN products p ON cp.product_id = p.id
Joined(cp) == ClientExists(cp.client_id) /\ ProductExists(cp.product_id)

\* GET /api/policies: the rows sent
ListPolicies ==
    {[id |-> cp.id, policy_number |-> cp.policy_number, end_date |-> cp.end_date,
      status |-> CaseStatus(cp)] : cp \in {r \in client_products : Joined(r)}}

\* GET /api/policies/:id: the row sent (none: 404)
GetPolicy(id) ==
    {[id |-> cp.id, policy_number |-> cp.policy_number, end_date |-> cp.end_date,
      status |-> cp.status] : cp \in {r \in client_products : Joined(r) /\ r.id = id}}

\* GET /api/policies/status/:status
PoliciesByStatus(status) ==
    {[id |-> cp.id, policy_number |-> cp.policy_number, end_date |-> cp.end_date,
      status |-> cp.status] :
        cp \in {r \in client_products : Joined(r) /\ r.status = status}}

\* GET /api/clients/:id: clientPolicies of the client sent
ClientPolicies(id) ==
    {[id |-> cp.id, policy_number |-> cp.policy_number, end_date |-> cp.end_date,
      status |-> cp.status] :
        cp \in {r \in client_products :
                   r.client_id = id /\ ClientExists(id) /\ ProductExists(r.product_id)}}

----------------------------------------------------------------------------
(* The clock *)

\* Time passes: the clock moves to a later time of the scenario.
Tick ==
    /\ \E i \in 1..Len(scenario.times) :
          /\ \/ scenario.times[i][1] > now[1]
             \/ (scenario.times[i][1] = now[1] /\ scenario.times[i][2] > now[2])
          /\ now' = scenario.times[i]
    /\ last' = [op |-> "none"]
    /\ UNCHANGED <<clients, products, client_products, claims, seq_policies,
                   seq_claims, scenario, inflight>>

----------------------------------------------------------------------------
(* Requests *)

ClaimBodies ==
    [amount : Opt(scenario.amounts), description : Opt(scenario.descriptions),
     notes : Opt(scenario.notes), status : Opt(scenario.body_statuses)]

PolicyIds == 1..scenario.max_policies
ClaimIds == 1..scenario.max_claims

Next ==
    \/ \E t \in scenario.tokens, c \in scenario.client_ids, p \in ProductIds,
          a \in scenario.amounts, d \in scenario.descriptions,
          n \in scenario.claim_numbers :
            Request("claims", "createClaim", t, CreateClaim(c, p, a, d, n))
    \/ \E t \in scenario.tokens, id \in ClaimIds, s \in scenario.claim_statuses,
          n \in Opt(scenario.notes), by \in Opt(scenario.processors) :
            Request("claims", "updateClaimStatus", t, UpdateClaimStatus(id, s, n, by))
    \/ \E t \in scenario.tokens, id \in ClaimIds, u \in ClaimBodies :
            Request("claims", "updateClaimFields", t, UpdateClaimFields(id, u))
    \/ \E t \in scenario.tokens, id \in ClaimIds :
            Request("claims", "deleteClaim", t, DeleteClaim(id))
    \/ \E t \in scenario.tokens, c \in scenario.client_ids \cup {0}, p \in ProductIds,
          n \in scenario.policy_numbers, e \in Opt(scenario.end_dates) :
            Request("policies", "createPolicy", t, CreatePolicy(c, p, n, e))
    \/ \E t \in scenario.tokens, c \in scenario.client_ids, p \in ProductIds \cup {0},
          n \in scenario.policy_numbers, e \in Opt(scenario.end_dates) :
            Request("clients", "addClientPolicy", t, AddClientPolicy(c, p, n, e))
    \/ \E t \in scenario.tokens, id \in PolicyIds, s \in scenario.policy_statuses :
            Request("policies", "updatePolicyStatus", t, UpdatePolicyStatus(id, s))
    \/ \E t \in scenario.tokens, id \in PolicyIds, n \in scenario.policy_numbers,
          e \in Opt(scenario.end_dates), s \in Opt(scenario.body_policy_statuses) :
            Request("policies", "updatePolicy", t, UpdatePolicy(id, n, e, s))
    \/ \E t \in scenario.tokens, id \in PolicyIds, m \in Opt(scenario.periods),
          e \in Opt(scenario.end_dates) :
            Request("policies", "renewPolicy", t, RenewPolicy(id, m, e))
    \/ \E t \in scenario.tokens, id \in PolicyIds :
            Request("policies", "deletePolicy", t, DeletePolicy(id))
    \/ \E t \in scenario.tokens, c \in scenario.client_ids, id \in PolicyIds :
            Request("clients", "removeClientPolicy", t, RemoveClientPolicy(c, id))
    \/ \E t \in scenario.tokens, id \in scenario.client_ids,
          s \in scenario.client_statuses :
            Request("clients", "updateClientStatus", t, UpdateClientStatus(id, s))
    \/ \E t \in scenario.tokens, id \in scenario.client_ids :
            Request("clients", "deleteClient", t, DeleteClient(id))
    \/ \E t \in scenario.tokens, id \in ProductIds, c \in Opt(scenario.body_coverages) :
            Request("products", "updateProduct", t, UpdateProduct(id, c))
    \/ \E t \in scenario.tokens, id \in ProductIds :
            Request("products", "deleteProduct", t, DeleteProduct(id))
    \/ Tick

\* The policy lifecycle: policies with and without an end date, active or
\* not, over two days; claims of one amount, pending or approved.
PolicyScenario ==
    [client_ids |-> ClientIds, db_errors |-> {"none"},
     tokens |-> {"valid"},
     amounts |-> {1}, descriptions |-> {"d1"}, claim_numbers |-> {NoNumber},
     claim_statuses |-> {"approved"}, notes |-> {}, processors |-> {},
     body_statuses |-> {},
     policy_numbers |-> {NoNumber}, end_dates |-> {20240101, 20250101},
     policy_statuses |-> {"active", "cancelled"},
     body_policy_statuses |-> {"active"}, periods |-> {6},
     client_statuses |-> {"bogus"}, coverages |-> {1}, body_coverages |-> {1},
     times |-> <<(<<20231201, 0>>), (<<20250101, 0>>)>>,
     max_policies |-> MaxPolicies, max_claims |-> MaxClaims,
     observed |-> {"deleteClient", "deleteProduct", "renewPolicy"}]

Init == InitFor(PolicyScenario)
Spec == Init /\ [][Next]_vars

\* Claim intake: claims of valid and invalid amount and description, for
\* clients with an active policy, a cancelled one or none, against a coverage
\* that can be lowered.
IntakeScenario ==
    [client_ids |-> ClientIds, db_errors |-> {"none"},
     tokens |-> {"valid"},
     amounts |-> {-1, 1, 2}, descriptions |-> {"", "d1"}, claim_numbers |-> {NoNumber},
     claim_statuses |-> {"pending"}, notes |-> {}, processors |-> {},
     body_statuses |-> {},
     policy_numbers |-> {NoNumber}, end_dates |-> {},
     policy_statuses |-> {"cancelled"},
     body_policy_statuses |-> {}, periods |-> {},
     client_statuses |-> {"bogus"}, coverages |-> {1, 2}, body_coverages |-> {1},
     times |-> <<(<<20250101, 0>>), (<<20250101, 1>>)>>,
     max_policies |-> MaxPolicies, max_claims |-> MaxClaims,
     observed |-> {"createClaim", "updateClaimFields"}]

InitIntake == InitFor(IntakeScenario)
SpecIntake == InitIntake /\ [][Next]_vars

\* Claim processing: claims are approved, rejected and reopened, edited with
\* amounts from 0 up to above the coverage, and deleted.
EditScenario ==
    [client_ids |-> ClientIds, db_errors |-> {"none"},
     tokens |-> {"valid"},
     amounts |-> {0, 1, 2}, descriptions |-> {"d1"}, claim_numbers |-> {NoNumber},
     claim_statuses |-> {"pending", "approved", "rejected"}, notes |-> {}, processors |-> {},
     body_statuses |-> {},
     policy_numbers |-> {NoNumber}, end_dates |-> {},
     policy_statuses |-> {"cancelled"},
     body_policy_statuses |-> {}, periods |-> {},
     client_statuses |-> {"bogus"}, coverages |-> {1}, body_coverages |-> {1},
     times |-> <<(<<20250101, 0>>), (<<20250101, 1>>)>>,
     max_policies |-> MaxPolicies, max_claims |-> MaxClaims,
     observed |-> {"updateClaimFields", "deleteClaim"}]

InitEdit == InitFor(EditScenario)
SpecEdit == InitEdit /\ [][Next]_vars

\* Issuing: policies and claims created with a generated number or with a
\* supplied one that equals the number generated at the first time, on two
\* days.
IssueScenario ==
    [client_ids |-> ClientIds, db_errors |-> {"none"},
     tokens |-> {"valid"},
     amounts |-> {1}, descriptions |-> {"d1"},
     claim_numbers |-> {NoNumber, <<"CLM-", 20250101, 0>>},
     claim_statuses |-> {"approved"}, notes |-> {}, processors |-> {},
     body_statuses |-> {},
     policy_numbers |-> {NoNumber, <<"POL-", 20250101, 0>>}, end_dates |-> {},
     policy_statuses |-> {"cancelled"},
     body_policy_statuses |-> {}, periods |-> {},
     client_statuses |-> {"bogus"}, coverages |-> {1}, body_coverages |-> {1},
     times |-> <<(<<20250101, 0>>), (<<20250102, 0>>)>>,
     max_policies |-> MaxPolicies, max_claims |-> MaxClaims,
     observed |-> {"createPolicy", "addClientPolicy", "createClaim"}]

InitIssue == InitFor(IssueScenario)
SpecIssue == InitIssue /\ [][Next]_vars

\* Administration: policies moved between all five statuses and to a value
\* that is none of them, clients activated, deactivated and given a value
\* that is neither, while they hold policies and pending claims.
StatusScenario ==
    [client_ids |-> ClientIds, db_errors |-> {"none"},
     tokens |-> {"valid"},
     amounts |-> {1}, descriptions |-> {"d1"}, claim_numbers |-> {NoNumber},
     claim_statuses |-> {"pending"}, notes |-> {}, processors |-> {},
     body_statuses |-> {},
     policy_numbers |-> {NoNumber}, end_dates |-> {},
     policy_statuses |-> {"active", "inactive", "cancelled", "expired", "suspended",
                          "bogus"},
     body_policy_statuses |-> {}, periods |-> {},
     client_statuses |-> {"active", "inactive", "suspended"},
     coverages |-> {1}, body_coverages |-> {1},
     times |-> <<(<<20250101, 0>>), (<<20250101, 1>>)>>,
     max_policies |-> MaxPolicies, max_claims |-> MaxClaims,
     observed |-> {"updatePolicyStatus", "updateClientStatus"}]

InitStatus == InitFor(StatusScenario)
SpecStatus == InitStatus /\ [][Next]_vars

\* Processing: the claims of one client, submitted on one day, are approved,
\* rejected and reopened on that day or the next, with and without notes and
\* a processor.
ProcessScenario ==
    [client_ids |-> {1}, db_errors |-> {"none"},
     tokens |-> {"valid"},
     amounts |-> {1}, descriptions |-> {"d1"}, claim_numbers |-> {NoNumber},
     claim_statuses |-> {"pending", "approved", "rejected"},
     notes |-> {"", "n1"}, processors |-> {7},
     body_statuses |-> {},
     policy_numbers |-> {NoNumber}, end_dates |-> {},
     policy_statuses |-> {"cancelled"},
     body_policy_statuses |-> {}, periods |-> {},
     client_statuses |-> {"bogus"}, coverages |-> {1}, body_coverages |-> {1},
     times |-> <<(<<20250101, 0>>), (<<20250102, 0>>)>>,
     max_policies |-> MaxPolicies, max_claims |-> MaxClaims,
     observed |-> {"updateClaimStatus"}]

InitProcess == InitFor(ProcessScenario)
SpecProcess == InitProcess /\ [][Next]_vars

\* Faults: creations during which the database may fail, at the insert or at
\* the read that follows it.
FaultScenario ==
    [client_ids |-> ClientIds, db_errors |-> {"none", "insert", "fetch"},
     tokens |-> {"valid"},
     amounts |-> {1}, descriptions |-> {"d1"}, claim_numbers |-> {NoNumber},
     claim_statuses |-> {"approved"}, notes |-> {}, processors |-> {},
     body_statuses |-> {},
     policy_numbers |-> {NoNumber}, end_dates |-> {},
     policy_statuses |-> {"cancelled"},
     body_policy_statuses |-> {}, periods |-> {},
     client_statuses |-> {"bogus"}, coverages |-> {1}, body_coverages |-> {1},
     times |-> <<(<<20250101, 0>>), (<<20250101, 1>>)>>,
     max_policies |-> MaxPolicies, max_claims |-> MaxClaims,
     observed |-> {"createPolicy", "addClientPolicy", "createClaim"}]

InitFault == InitFor(FaultScenario)
SpecFault == InitFault /\ [][Next]_vars

\* Access: requests of one client without a token, with an expired token and
\* with a valid one; every operation is observed.
AccessScenario ==
    [client_ids |-> {1}, db_errors |-> {"none"},
     tokens |-> {NoToken, "expired", "valid"},
     amounts |-> {1}, descriptions |-> {"d1"}, claim_numbers |-> {NoNumber},
     claim_statuses |-> {"approved"}, notes |-> {}, processors |-> {},
     body_statuses |-> {},
     policy_numbers |-> {NoNumber}, end_dates |-> {},
     policy_statuses |-> {"cancelled"},
     body_policy_statuses |-> {}, periods |-> {},
     client_statuses |-> {"inactive"}, coverages |-> {1}, body_coverages |-> {1},
     times |-> <<(<<20250101, 0>>), (<<20250101, 1>>)>>,
     max_policies |-> MaxPolicies, max_claims |-> MaxClaims,
     observed |-> {"createClaim", "updateClaimStatus", "updateClaimFields",
                   "deleteClaim", "createPolicy", "addClientPolicy",
                   "updatePolicyStatus", "updatePolicy", "renewPolicy",
                   "deletePolicy", "removeClientPolicy", "updateClientStatus",
                   "deleteClient", "updateProduct", "deleteProduct"}]

InitAccess == InitFor(AccessScenario)
SpecAccess == InitAccess /\ [][Next]_vars

\* Policy details: updates of a policy whose body carries a status of the
\* list, one outside it, or the empty text.
DetailsScenario ==
    [client_ids |-> {1}, db_errors |-> {"none"},
     tokens |-> {"valid"},
     amounts |-> {1}, descriptions |-> {"d1"}, claim_numbers |-> {NoNumber},
     claim_statuses |-> {"approved"}, notes |-> {}, processors |-> {},
     body_statuses |-> {},
     policy_numbers |-> {NoNumber}, end_dates |-> {20250601},
     policy_statuses |-> {"suspended", "bogus"},
     body_policy_statuses |-> {"", "bogus", "expired"}, periods |-> {6},
     client_statuses |-> {"inactive"}, coverages |-> {1}, body_coverages |-> {1},
     times |-> <<(<<20250101, 0>>), (<<20250102, 0>>)>>,
     max_policies |-> MaxPolicies, max_claims |-> MaxClaims,
     observed |-> {"createPolicy", "updatePolicyStatus", "updatePolicy",
                   "renewPolicy"}]

InitDetails == InitFor(DetailsScenario)
SpecDetails == InitDetails /\ [][Next]_vars

\* Claim bodies: updates of a claim whose body carries, beside an amount, a
\* description or notes, a status.
BodyScenario ==
    [client_ids |-> {1}, db_errors |-> {"none"},
     tokens |-> {"valid"},
     amounts |-> {1}, descriptions |-> {"d1", "d2"}, claim_numbers |-> {NoNumber},
     claim_statuses |-> {"rejected"}, notes |-> {"n1"}, processors |-> {},
     body_statuses |-> {"approved"},
     policy_numbers |-> {NoNumber}, end_dates |-> {},
     policy_statuses |-> {"cancelled"},
     body_policy_statuses |-> {}, periods |-> {},
     client_statuses |-> {"inactive"}, coverages |-> {1}, body_coverages |-> {1},
     times |-> <<(<<20250101, 0>>), (<<20250102, 0>>)>>,
     max_policies |-> MaxPolicies, max_claims |-> MaxClaims,
     observed |-> {"updateClaimFields"}]

InitBody == InitFor(BodyScenario)
SpecBody == InitBody /\ [][Next]_vars

\* Lapse: policies with an end date that passes while they stay active, and
\* the claims and deletions that meet them.
LapseScenario ==
    [client_ids |-> {1}, db_errors |-> {"none"},
     tokens |-> {"valid"},
     amounts |-> {1}, descriptions |-> {"d1"}, claim_numbers |-> {NoNumber},
     claim_statuses |-> {"approved"}, notes |-> {}, processors |-> {},
     body_statuses |-> {},
     policy_numbers |-> {NoNumber}, end_dates |-> {20240101},
     policy_statuses |-> {"cancelled", "active"},
     body_policy_statuses |-> {}, periods |-> {},
     client_statuses |-> {"inactive"}, coverages |-> {1}, body_coverages |-> {1},
     times |-> <<(<<20231201, 0>>), (<<20250101, 0>>)>>,
     max_policies |-> MaxPolicies, max_claims |-> MaxClaims,
     observed |-> {"createClaim", "deleteClient", "deleteProduct"}]

InitLapse == InitFor(LapseScenario)
SpecLapse == InitLapse /\ [][Next]_vars

----------------------------------------------------------------------------
(* Interleaved requests.  A handler that reads and then writes issues two  *)
(* statements; the second is queued in the callback of the first, and the  *)
(* statements of other requests may run between them.  The steps below run *)
(* for requests that have passed their router's middleware.                *)

\* The requests that wait on the database.
InflightRequests == {cb.req : cb \in inflight}

\* POST /api/claims up to the callback of verifyQuery, which queues the
\* insert.
CreateClaimVerify(req, client_id, product_id, amount, description, claim_number) ==
    LET Reply(code, error, max) ==
            [op |-> "createClaim", id |-> seq_claims + 1,
             code |-> code, error |-> error, maxCoverage |-> max]
        coverage == ProductRow(product_id).coverage
        finalClaimNumber ==
            IF claim_number = NoNumber THEN GeneratedNumber("CLM-") ELSE claim_number
    IN
    /\ req \notin InflightRequests
    /\ UNCHANGED <<clients, products, client_products, claims, seq_policies,
                   seq_claims, now, scenario>>
    /\ IF amount < 0 \/ description = ""
       THEN /\ Respond(Reply(400, "validation", NULL))
            /\ UNCHANGED inflight
       ELSE IF ~(ClientExists(client_id) /\ ProductExists(product_id))
       THEN /\ Respond(Reply(404, "Client or product not found", NULL))
            /\ UNCHANGED inflight
       ELSE IF ActivePoliciesFor(client_id, product_id) = {}
       THEN /\ Respond(Reply(400, "Client does not have an active policy for this product", NULL))
            /\ UNCHANGED inflight
       ELSE IF amount > coverage
       THEN /\ Respond(Reply(400, "Claim amount exceeds policy coverage", coverage))
            /\ UNCHANGED inflight
       ELSE /\ inflight' = inflight \cup
                    {[op |-> "createClaim", req |-> req,
                      body |-> [client_id |-> client_id, product_id |-> product_id,
                                amount |-> amount, description |-> description,
                                claim_number |-> finalClaimNumber]]}
            /\ UNCHANGED last

\* An insert of POST /api/claims that looks the active policy up again.
CreateClaimInsertVerified(cb) ==
    LET Reply(code, error) ==
            [op |-> "createClaim", id |-> seq_claims + 1,
             code |-> code, error |-> error, maxCoverage |-> NULL]
        b == cb.body
        row == NewClaimRow(b.client_id, b.product_id, b.amount, b.description,
                           b.claim_number)
    IN
    /\ cb \in inflight
    /\ cb.op = "createClaim"
    /\ inflight' = inflight \ {cb}
    /\ UNCHANGED <<clients, products, client_products, seq_policies, now, scenario>>
    /\ IF ActivePoliciesFor(b.client_id, b.product_id) = {}
       THEN /\ Respond(Reply(400, "Client does not have an active policy for this product"))
            /\ UNCHANGED <<claims, seq_claims>>
       ELSE IF \E c \in claims : c.claim_number = row.claim_number
       THEN /\ Respond(Reply(409, "Claim number already exists"))
            /\ UNCHANGED <<claims, seq_claims>>
       ELSE /\ seq_claims < scenario.max_claims
            /\ claims' = claims \cup {row}
            /\ seq_claims' = seq_claims + 1
            /\ Respond(Reply(201, ""))

\* POST /api/claims from the insert on: the row is built from what the
\* callback of verifyQuery kept, whatever the tables hold by now.
CreateClaimInsert(cb) ==
    LET Reply(code, error) ==
            [op |-> "createClaim", id |-> seq_claims + 1,
             code |-> code, error |-> error, maxCoverage |-> NULL]
        b == cb.body
        row == NewClaimRow(b.client_id, b.product_id, b.amount, b.description,
                           b.claim_number)
    IN
    /\ cb \in inflight
    /\ cb.op = "createClaim"
    /\ inflight' = inflight \ {cb}
    /\ UNCHANGED <<clients, products, client_products, seq_policies, now, scenario>>
    /\ IF \E c \in claims : c.claim_number = row.claim_number
       THEN \* UNIQUE constraint failed: claims.claim_number
            /\ Respond(Reply(409, "Claim number already exists"))
            /\ UNCHANGED <<claims, seq_claims>>
       ELSE /\ seq_claims < scenario.max_claims
            /\ \E e \in scenario.db_errors :
                  IF e = "insert"
                  THEN /\ Respond(Reply(500, insert_error("createClaim")))
                       /\ UNCHANGED <<claims, seq_claims>>
                  ELSE /\ claims' = claims \cup {row}
                       /\ seq_claims' = seq_claims + 1
                       /\ Respond(IF e = "fetch"
                                  THEN Reply(500, fetch_error("createClaim"))
                                  ELSE Reply(201, ""))

\* DELETE /api/claims/:id up to the callback of the SELECT, which queues the
\* DELETE.
DeleteClaimSelect(req, id) ==
    LET Reply(code, error) ==
            [op |-> "deleteClaim", id |-> id, code |-> code, error |-> error]
    IN
    /\ req \notin InflightRequests
    /\ UNCHANGED <<clients, products, client_products, claims, seq_policies,
                   seq_claims, now, scenario>>
    /\ IF ~ClaimExists(id)
       THEN /\ Respond(Reply(404, "Claim not found"))
            /\ UNCHANGED inflight
       ELSE IF ClaimRow(id).status # "pending"
       THEN /\ Respond(Reply(400, "Cannot delete processed claim"))
            /\ UNCHANGED inflight
       ELSE /\ inflight' = inflight \cup {[op |-> "deleteClaim", req |-> req, id |-> id]}
            /\ UNCHANGED last

\* DELETE /api/claims/:id from the DELETE on: its callback answers without
\* reading this.changes.
DeleteClaimRun(cb) ==
    LET Reply(code, error) ==
            [op |-> "deleteClaim", id |-> cb.id, code |-> code, error |-> error]
    IN
    /\ cb \in inflight
    /\ cb.op = "deleteClaim"
    /\ inflight' = inflight \ {cb}
    /\ UNCHANGED <<clients, products, client_products, seq_policies, seq_claims,
                   now, scenario>>
    /\ claims' = DeleteRow(claims, cb.id)
    /\ Respond(Reply(200, ""))

\* DELETE /api/clients/:id up to the callback of checkQuery, which queues the
\* DELETE.
DeleteClientCheck(req, id) ==
    LET Reply(code, error, ap, pc) ==
            [op |-> "deleteClient", id |-> id, code |-> code, error |-> error,
             activePolicies |-> ap, pendingClaims |-> pc]
    IN
    /\ req \notin InflightRequests
    /\ UNCHANGED <<clients, products, client_products, claims, seq_policies,
                   seq_claims, now, scenario>>
    /\ IF active_policies(id) > 0 \/ pending_claims(id) > 0
       THEN /\ Respond(Reply(409, "Cannot delete client with active policies or pending claims",
                            active_policies(id), pending_claims(id)))
            /\ UNCHANGED inflight
       ELSE /\ inflight' = inflight \cup {[op |-> "deleteClient", req |-> req, id |-> id]}
            /\ UNCHANGED last

\* DELETE /api/clients/:id from the DELETE on: this.changes tells whether the
\* client was there.
DeleteClientRun(cb) ==
    LET Reply(code, error) ==
            [op |-> "deleteClient", id |-> cb.id, code |-> code, error |-> error,
             activePolicies |-> 0, pendingClaims |-> 0]
    IN
    /\ cb \in inflight
    /\ cb.op = "deleteClient"
    /\ inflight' = inflight \ {cb}
    /\ UNCHANGED <<products, seq_policies, seq_claims, now, scenario>>
    /\ IF ~ClientExists(cb.id)
       THEN /\ Respond(Reply(404, "Client not found"))
            /\ UNCHANGED <<clients, client_products, claims>>
       ELSE /\ clients' = DeleteRow(clients, cb.id)
            /\ client_products' = IF foreign_keys
                                  THEN {cp \in client_products : cp.client_id # cb.id}
                                  ELSE client_products
            /\ claims' = IF foreign_keys
                         THEN {c \in claims : c.client_id # cb.id}
                         ELSE claims
            /\ Respond(Reply(200, ""))

\* The requests served one at a time, and those whose statements interleave.
NextRace ==
    \/ Next
    \/ \E req \in scenario.requests, c \in scenario.client_ids, p \in ProductIds,
          a \in scenario.amounts, d \in scenario.descriptions,
          n \in scenario.claim_numbers :
            CreateClaimVerify(req, c, p, a, d, n)
    \/ \E cb \in inflight : CreateClaimInsert(cb)
    \/ \E req \in scenario.requests, id \in ClaimIds : DeleteClaimSelect(req, id)
    \/ \E cb \in inflight : DeleteClaimRun(cb)
    \/ \E req \in scenario.requests, id \in scenario.client_ids :
            DeleteClientCheck(req, id)
    \/ \E cb \in inflight : DeleteClientRun(cb)

\* Races: two requests at a time for one client, whose reads and writes
\* interleave with each other and with the requests served at once.
RaceScenario ==
    [client_ids |-> {1}, db_errors |-> {"none"},
     tokens |-> {"valid"}, requests |-> {1, 2},
     amounts |-> {1}, descriptions |-> {"d1"}, claim_numbers |-> {NoNumber},
     claim_statuses |-> {"approved"}, notes |-> {}, processors |-> {},
     body_statuses |-> {},
     policy_numbers |-> {NoNumber}, end_dates |-> {},
     policy_statuses |-> {"cancelled"},
     body_policy_statuses |-> {}, periods |-> {},
     client_statuses |-> {"inactive"}, coverages |-> {1}, body_coverages |-> {1},
     times |-> <<(<<20250101, 0>>), (<<20250101, 1>>)>>,
     max_policies |-> MaxPolicies, max_claims |-> MaxClaims,
     observed |-> {"createClaim", "deleteClaim", "deleteClient",
                   "updatePolicyStatus", "deletePolicy", "removeClientPolicy"}]

InitRace == InitFor(RaceScenario)
SpecRace == InitRace /\ [][NextRace]_vars

----------------------------------------------------------------------------
(* Properties.  A status of the specification's error taxonomy is read off *)
(* the response: Conflict is 409, NotFound is 404, a 400 is told apart by  *)
(* its message.                                                            *)

\* An active policy links the client to the product.
ActivelyLinked(c, p) ==
    \E cp \in client_products :
        cp.client_id = c /\ cp.product_id = p /\ cp.status = "active"

\* The response is the InvalidArgument failure that reports max as the
\* maximum allowed amount.
ExceedsCoverageReply(reply, max) ==
    /\ reply.code = 400
    /\ reply.error = "Claim amount exceeds policy coverage"
    /\ reply.maxCoverage = max

\* The response is the PreconditionFailed failure.
NoActivePolicyReply(reply) ==
    /\ reply.code = 400
    /\ reply.error = "Client does not have an active policy for this product"

\* The response is the InvalidState failure of an amount edit.
ProcessedClaimReply(reply) ==
    /\ reply.code = 400
    /\ reply.error = "Cannot modify amount of processed claim"

\* C1 as stated: createClaim, or updateClaimFields carrying an amount for a
\* pending claim, with an amount above the current coverage of the product
\* always fails with InvalidArgument reporting that coverage as the maximum,
\* and no claim is stored or changed.
C1_OverCoverageAlwaysInvalidArgument ==
    [][/\ \A c \in ClientIds, p \in ProductIds, a \in scenario.amounts,
             d \in scenario.descriptions, n \in scenario.claim_numbers :
            (ProductExists(p) /\ a > ProductRow(p).coverage /\ CreateClaim(c, p, a, d, n))
            => /\ ExceedsCoverageReply(last', ProductRow(p).coverage)
               /\ claims' = claims
       /\ \A id \in ClaimIds, u \in ClaimBodies :
            (/\ ClaimExists(id)
             /\ ClaimRow(id).status = "pending"
             /\ Has(u.amount)
             /\ ProductExists(ClaimRow(id).product_id)
             /\ Val(u.amount) > ProductRow(ClaimRow(id).product_id).coverage
             /\ UpdateClaimFields(id, u))
            => /\ ExceedsCoverageReply(last', ProductRow(ClaimRow(id).product_id).coverage)
               /\ claims' = claims]_vars

\* C1, amended: with an amount above the current coverage of the product no
\* claim is stored or changed; the failure is the InvalidArgument that reports
\* the coverage as the maximum when the description passes validation and, for
\* createClaim, the client exists and an active policy links it to the product.
C1_OverCoverageRejected ==
    [][/\ \A c \in ClientIds, p \in ProductIds, a \in scenario.amounts,
             d \in scenario.descriptions, n \in scenario.claim_numbers :
            (ProductExists(p) /\ a > ProductRow(p).coverage /\ CreateClaim(c, p, a, d, n))
            => /\ claims' = claims
               /\ (d # "" /\ ClientExists(c) /\ ActivelyLinked(c, p))
                    => ExceedsCoverageReply(last', ProductRow(p).coverage)
       /\ \A id \in ClaimIds, u \in ClaimBodies :
            (/\ ClaimExists(id)
             /\ ClaimRow(id).status = "pending"
             /\ Has(u.amount)
             /\ ProductExists(ClaimRow(id).product_id)
             /\ Val(u.amount) > ProductRow(ClaimRow(id).product_id).coverage
             /\ UpdateClaimFields(id, u))
            => /\ claims' = claims
               /\ (~Has(u.description) \/ Val(u.description) # "")
                    => ExceedsCoverageReply(last', ProductRow(ClaimRow(id).product_id).coverage)]_vars

\* C1 happens: a createClaim for a client with an active policy was refused
\* for an amount above the coverage, which the response reports, and no claim
\* is stored.
C1_Witness ==
    /\ last.op = "createClaim"
    /\ \E p \in products : ExceedsCoverageReply(last, p.coverage)
    /\ \E cp \in client_products : cp.status = "active"
    /\ claims = {}

\* C2 as stated: createClaim for an existing client and an existing product
\* that no active policy links fails with PreconditionFailed whatever the
\* amount and the description, valid or not, and stores no claim.
C2_NoActivePolicyAlwaysPreconditionFailed ==
    [][\A c \in ClientIds, p \in ProductIds, a \in scenario.amounts,
          d \in scenario.descriptions, n \in scenario.claim_numbers :
         (ClientExists(c) /\ ProductExists(p) /\ ~ActivelyLinked(c, p)
            /\ CreateClaim(c, p, a, d, n))
         => NoActivePolicyReply(last') /\ claims' = claims]_vars

\* C2, amended: such a createClaim stores no claim; it fails with
\* PreconditionFailed when amount and description pass validation (amount at
\* least 0, above the coverage included, and a non-empty description), and
\* with the validation failure otherwise.
C2_NoActivePolicyRejected ==
    [][\A c \in ClientIds, p \in ProductIds, a \in scenario.amounts,
          d \in scenario.descriptions, n \in scenario.claim_numbers :
         (ClientExists(c) /\ ProductExists(p) /\ ~ActivelyLinked(c, p)
            /\ CreateClaim(c, p, a, d, n))
         => /\ claims' = claims
            /\ IF a >= 0 /\ d # ""
               THEN NoActivePolicyReply(last')
               ELSE last'.code = 400 /\ last'.error = "validation"]_vars

\* C2 happens: a createClaim was refused for want of an active policy while
\* the only policy stored is a cancelled one, and no claim is stored.
C2_Witness ==
    /\ last.op = "createClaim"
    /\ NoActivePolicyReply(last)
    /\ client_products # {}
    /\ \A cp \in client_products : cp.status = "cancelled"
    /\ products # {}
    /\ claims = {}

C4_ProcessedClaimsKeepAmount ==
    [][\A id \in ClaimIds, u \in ClaimBodies :
         (/\ ClaimExists(id)
          /\ ClaimRow(id).status \in {"approved", "rejected"}
          /\ Has(u.amount) => Val(u.amount) >= 0
          /\ Has(u.description) => Val(u.description) # ""
          /\ UpdateClaimFields(id, u))
         => /\ \E c \in claims' :
                  /\ c.id = id
                  /\ c.amount = ClaimRow(id).amount
                  /\ c.description = ClaimRow(id).description
            /\ (Has(u.amount) /\ Val(u.amount) # ClaimRow(id).amount)
                  => ProcessedClaimReply(last')]_vars

\* A policy, of whatever status, links the client to the product.
PairTaken(c, p) ==
    \E cp \in client_products : cp.client_id = c /\ cp.product_id = p

\* C11: no two stored policies share a (client, product) pair, and a policy
\* creation for a pair that already has a policy, through POST /policies or
\* through POST /clients/:id/policies, fails with Conflict and stores nothing.
C11_OnePolicyPerPair ==
    [][/\ \A a \in client_products', b \in client_products' :
            (a.client_id = b.client_id /\ a.product_id = b.product_id) => a = b
       /\ \A c \in ClientIds, p \in ProductIds, n \in scenario.policy_numbers,
             e \in Opt(scenario.end_dates) :
            /\ (PairTaken(c, p) /\ CreatePolicy(c, p, n, e))
                  => last'.code = 409 /\ client_products' = client_products
            /\ (PairTaken(c, p) /\ AddClientPolicy(c, p, n, e))
                  => last'.code = 409 /\ client_products' = client_products]_vars

\* C12: a claim whose status is approved or rejected keeps that status in
\* every step, whatever the operation.
C12_ProcessedStatusIsFinal ==
    [][\A c \in claims :
         c.status \in {"approved", "rejected"} =>
            \A c2 \in claims' : c2.id = c.id => c2.status = c.status]_vars

\* C13: updatePolicyStatus with one of the five statuses stores it on an
\* existing policy, whatever the status the policy had, and touches no other
\* policy; with any other value it fails with InvalidArgument and changes no
\* policy; with a legal value for an absent policy it answers NotFound.  The
\* steps concerned are those that answer an updatePolicyStatus.
C13_AnyPolicyStatusToAny ==
    [][last'.op = "updatePolicyStatus" =>
       \A id \in PolicyIds, s \in scenario.policy_statuses :
         UpdatePolicyStatus(id, s) =>
            IF s \notin {"active", "inactive", "cancelled", "expired", "suspended"}
            THEN last'.code = 400 /\ client_products' = client_products
            ELSE IF \A cp \in client_products : cp.id # id
            THEN last'.code = 404 /\ client_products' = client_products
            ELSE /\ last'.code = 200
                 /\ client_products' =
                       {IF cp.id = id THEN [cp EXCEPT !.status = s] ELSE cp :
                          cp \in client_products}]_vars

\* C13 happens: an updatePolicyStatus succeeded and the policy is stored as
\* suspended.
C13_Witness ==
    /\ last.op = "updatePolicyStatus"
    /\ last.code = 200
    /\ \E cp \in client_products : cp.id = last.id /\ cp.status = "suspended"

\* C14: updateClientStatus changes no policy and no claim; with a value other
\* than active and inactive it fails with InvalidArgument and changes no
\* client; with one of the two it stores the value on an existing client,
\* active policies and pending claims notwithstanding.  The steps concerned
\* are those that answer an updateClientStatus.
C14_ClientStatusValues ==
    [][last'.op = "updateClientStatus" =>
       \A id \in ClientIds, s \in scenario.client_statuses :
         UpdateClientStatus(id, s) =>
            /\ client_products' = client_products
            /\ claims' = claims
            /\ IF s \notin {"active", "inactive"}
               THEN last'.code = 400 /\ clients' = clients
               ELSE IF \A c \in clients : c.id # id
               THEN last'.code = 404 /\ clients' = clients
               ELSE /\ last'.code = 200
                    /\ clients' = {IF c.id = id THEN [c EXCEPT !.status = s] ELSE c :
                                     c \in clients}]_vars

\* C14 happens: a client that holds an active policy and a pending claim was
\* set inactive.
C14_Witness ==
    /\ last.op = "updateClientStatus"
    /\ last.code = 200
    /\ \E c \in clients : c.id = last.id /\ c.status = "inactive"
    /\ \E cp \in client_products : cp.client_id = last.id /\ cp.status = "active"
    /\ \E c \in claims : c.client_id = last.id /\ c.status = "pending"

NumberUsed(prefix, n) == IF n # NoNumber THEN n ELSE <<prefix, now[1], now[2]>>

\* C17: a creation whose number, supplied or generated, is the number of a
\* stored record of the same type fails with Conflict and stores nothing; this
\* includes the second of two creations without a number at one millisecond.
C17_NumberCollisionIsConflict ==
    [][/\ \A c \in ClientIds, p \in ProductIds, n \in scenario.policy_numbers,
             e \in Opt(scenario.end_dates) :
            /\ ((\E cp \in client_products : cp.policy_number = NumberUsed("POL-", n))
                 /\ CreatePolicy(c, p, n, e))
                  => last'.code = 409 /\ client_products' = client_products
            /\ ((\E cp \in client_products : cp.policy_number = NumberUsed("POL-", n))
                 /\ AddClientPolicy(c, p, n, e))
                  => last'.code = 409 /\ client_products' = client_products
       /\ \A c \in ClientIds, p \in ProductIds, a \in scenario.amounts,
             d \in scenario.descriptions, n \in scenario.claim_numbers :
            ((\E r \in claims : r.claim_number = NumberUsed("CLM-", n))
             /\ a >= 0 /\ d # "" /\ ActivelyLinked(c, p) /\ ClientExists(c)
             /\ ProductExists(p) /\ a <= ProductRow(p).coverage
             /\ CreateClaim(c, p, a, d, n))
               => last'.code = 409 /\ claims' = claims]_vars

\* C18: updateClaimStatus on an existing claim stores the target status; with
\* target approved or rejected it sets the processed date to the current date,
\* with target pending it leaves the processed date as it is; a processor that
\* is supplied is recorded, and so are notes that are supplied and not empty;
\* what is not supplied stays as stored, and no other claim changes.  The
\* steps concerned are those that answer an updateClaimStatus, for the claim
\* the answer names.
C18_ProcessingStamp ==
    [][last'.op = "updateClaimStatus" =>
       \A id \in {last'.id}, s \in scenario.claim_statuses, n \in Opt(scenario.notes),
          by \in Opt(scenario.processors) :
         ((\E r \in claims : r.id = id)
          /\ s \in {"pending", "approved", "rejected"}
          /\ UpdateClaimStatus(id, s, n, by))
         => /\ last'.code = 200
            /\ \A old \in claims : old.id # id => old \in claims'
            /\ \A old \in claims : old.id = id =>
                  \E new \in claims' :
                     /\ new = [old EXCEPT !.status = new.status,
                                          !.processed_date = new.processed_date,
                                          !.processed_by = new.processed_by,
                                          !.notes = new.notes]
                     /\ new.status = s
                     /\ new.processed_date =
                           IF s \in {"approved", "rejected"} THEN now[1]
                           ELSE old.processed_date
                     /\ new.processed_by = IF by # {} THEN Val(by) ELSE old.processed_by
                     /\ new.notes = IF n # {} /\ Val(n) # "" THEN Val(n) ELSE old.notes]_vars

\* C18 happens: a claim submitted on the first day was rejected on the
\* second with notes and a processor, and carries all three.
C18_Witness ==
    /\ last.op = "updateClaimStatus"
    /\ last.code = 200
    /\ now[1] = 20250102
    /\ \E r \in claims :
          /\ r.id = last.id
          /\ r.status = "rejected"
          /\ r.submitted_date = 20250101
          /\ r.processed_date = 20250102
          /\ r.processed_by = 7
          /\ r.notes = "n1"

\* C19: a creation answers with its created-but-failed-to-fetch error exactly
\* when it has stored the new record and not sent it; that error is not the
\* one of a failed insert, after which nothing is stored; and the record
\* stored is the one the answer numbers.
C19_CreatedButNotFetched ==
    [][/\ \A c \in ClientIds, p \in ProductIds, a \in scenario.amounts,
             d \in scenario.descriptions, n \in scenario.claim_numbers :
            CreateClaim(c, p, a, d, n) =>
               /\ (last'.error = "Claim created but failed to fetch")
                     <=> (claims' # claims /\ last'.code # 201)
               /\ last'.error = "Failed to create claim" => claims' = claims
               /\ claims' # claims =>
                     /\ claims \subseteq claims'
                     /\ \E r \in claims' \ claims : r.id = last'.id
       /\ \A c \in ClientIds, p \in ProductIds, n \in scenario.policy_numbers,
             e \in Opt(scenario.end_dates) :
            /\ CreatePolicy(c, p, n, e) =>
                  /\ (last'.error = "Policy created but failed to fetch details")
                        <=> (client_products' # client_products /\ last'.code # 201)
                  /\ last'.error = "Failed to create policy"
                        => client_products' = client_products
                  /\ client_products' # client_products =>
                        /\ client_products \subseteq client_products'
                        /\ \E r \in client_products' \ client_products : r.id = last'.id
            /\ AddClientPolicy(c, p, n, e) =>
                  /\ (last'.error = "Policy created but failed to fetch")
                        <=> (client_products' # client_products /\ last'.code # 201)
                  /\ last'.error = "Failed to add policy"
                        => client_products' = client_products
                  /\ client_products' # client_products =>
                        /\ client_products \subseteq client_products'
                        /\ \E r \in client_products' \ client_products : r.id = last'.id]_vars

\* C19 happens: a createClaim answered that the claim was created but not
\* fetched, and the claim is stored.
C19_Witness ==
    /\ last.op = "createClaim"
    /\ last.code = 500
    /\ last.error = "Claim created but failed to fetch"
    /\ \E r \in claims : r.id = last.id /\ r.status = "pending"

\* The answer the specification gives a request whose token is missing (401)
\* or does not verify (403), with every table as it was.
Refused(t) ==
    /\ last'.code = IF t = NoToken THEN 401 ELSE 403
    /\ UNCHANGED <<clients, products, client_products, claims, seq_policies,
                   seq_claims>>

\* C20: a request to any endpoint of the claims, policies, clients and
\* products routers that carries no token is answered 401, one that carries
\* an invalid or expired token 403, and neither changes anything.
C20_EveryEndpointBehindAuth ==
    [][\A t \in scenario.tokens \ {"valid"} :
         /\ \A c \in scenario.client_ids, p \in ProductIds, a \in scenario.amounts,
               d \in scenario.descriptions, n \in scenario.claim_numbers :
              Request("claims", "createClaim", t, CreateClaim(c, p, a, d, n))
                 => Refused(t)
         /\ \A id \in ClaimIds :
              /\ \A s \in scenario.claim_statuses, n \in Opt(scenario.notes),
                    by \in Opt(scenario.processors) :
                   Request("claims", "updateClaimStatus", t,
                           UpdateClaimStatus(id, s, n, by)) => Refused(t)
              /\ \A u \in ClaimBodies :
                   Request("claims", "updateClaimFields", t, UpdateClaimFields(id, u))
                      => Refused(t)
              /\ Request("claims", "deleteClaim", t, DeleteClaim(id)) => Refused(t)
         /\ \A c \in scenario.client_ids \cup {0}, p \in ProductIds \cup {0},
               n \in scenario.policy_numbers, e \in Opt(scenario.end_dates) :
              /\ Request("policies", "createPolicy", t, CreatePolicy(c, p, n, e))
                    => Refused(t)
              /\ Request("clients", "addClientPolicy", t, AddClientPolicy(c, p, n, e))
                    => Refused(t)
         /\ \A id \in PolicyIds :
              /\ \A s \in scenario.policy_statuses :
                   Request("policies", "updatePolicyStatus", t, UpdatePolicyStatus(id, s))
                      => Refused(t)
              /\ \A n \in scenario.policy_numbers, e \in Opt(scenario.end_dates),
                    s \in Opt(scenario.body_policy_statuses) :
                   Request("policies", "updatePolicy", t, UpdatePolicy(id, n, e, s))
                      => Refused(t)
              /\ \A m \in Opt(scenario.periods), e \in Opt(scenario.end_dates) :
                   Request("policies", "renewPolicy", t, RenewPolicy(id, m, e))
                      => Refused(t)
              /\ Request("policies", "deletePolicy", t, DeletePolicy(id)) => Refused(t)
              /\ \A c \in scenario.client_ids :
                   Request("clients", "removeClientPolicy", t, RemoveClientPolicy(c, id))
                      => Refused(t)
         /\ \A id \in scenario.client_ids :
              /\ \A s \in scenario.client_statuses :
                   Request("clients", "updateClientStatus", t, UpdateClientStatus(id, s))
                      => Refused(t)
              /\ Request("clients", "deleteClient", t, DeleteClient(id)) => Refused(t)
         /\ \A id \in ProductIds :
              /\ \A c \in Opt(scenario.body_coverages) :
                   Request("products", "updateProduct", t, UpdateProduct(id, c))
                      => Refused(t)
              /\ Request("products", "deleteProduct", t, DeleteProduct(id))
                    => Refused(t)]_vars

\* C21: every stored policy and every stored claim references a client and
\* a product that are stored.
C21_ReferencesExist ==
    /\ \A cp \in client_products :
          /\ \E c \in clients : c.id = cp.client_id
          /\ \E p \in products : p.id = cp.product_id
    /\ \A cl \in claims :
          /\ \E c \in clients : c.id = cl.client_id
          /\ \E p \in products : p.id = cl.product_id

\* C22: a DELETE of a claim that is absent when the statement runs, because
\* another request deleted it after this one's SELECT, is answered NotFound;
\* so is a DELETE of a client in the same case.
C22_WriteOnAbsentIsNotFound ==
    [][\A cb \in inflight :
         /\ (/\ cb.op = "deleteClaim"
             /\ ~(\E c \in claims : c.id = cb.id)
             /\ DeleteClaimRun(cb)) => last'.code = 404
         /\ (/\ cb.op = "deleteClient"
             /\ ~(\E c \in clients : c.id = cb.id)
             /\ DeleteClientRun(cb)) => last'.code = 404]_vars

\* C23: every stored policy has one of the five statuses active, inactive,
\* cancelled, expired, suspended, whatever status values the creations, the
\* status updates, the updates of details and the renewals carried.
C23_PolicyStatusInList ==
    \A cp \in client_products :
       cp.status \in {"active", "inactive", "cancelled", "expired", "suspended"}

\* C24: updateClaimFields leaves the status, the client and product, the
\* claim number and the processed date of its claim as they were, and every
\* other claim, policy, client and product too, whatever the body carries.
C24_UpdateClaimFieldsFrame ==
    [][\A id \in ClaimIds, u \in ClaimBodies :
         UpdateClaimFields(id, u) =>
            /\ UNCHANGED <<clients, products, client_products>>
            /\ {c.id : c \in claims'} = {c.id : c \in claims}
            /\ \A c \in claims, d \in claims' :
                  c.id = d.id =>
                     /\ d.status = c.status
                     /\ d.client_id = c.client_id
                     /\ d.product_id = c.product_id
                     /\ d.claim_number = c.claim_number
                     /\ d.processed_date = c.processed_date
                     /\ c.id # id => d = c]_vars

\* C25: the insert of a createClaim whose check of the active policy has
\* passed stores the claim, pending, also when no active policy links the
\* client and the product any more at the time of the insert.
C25_InsertAfterCancellation ==
    [][last'.op = "createClaim" =>
         \A cb \in inflight :
            (/\ cb.op = "createClaim"
             /\ ~(\E cp \in client_products :
                     /\ cp.client_id = cb.body.client_id
                     /\ cp.product_id = cb.body.product_id
                     /\ cp.status = "active")
             /\ ~(\E c \in claims : c.claim_number = cb.body.claim_number)
             /\ CreateClaimInsert(cb))
               => /\ last'.code = 201
                  /\ \E c \in claims' \ claims :
                        /\ c.id = last'.id
                        /\ c.status = "pending"
                        /\ c.client_id = cb.body.client_id
                        /\ c.product_id = cb.body.product_id
                  /\ UNCHANGED client_products]_vars

\* C25 happens: a createClaim has just stored a pending claim for a client
\* and a product whose policy is cancelled; the cancellation ran after the
\* claim's check, for no later response has replaced the creation's.
C25_Witness ==
    /\ last.op = "createClaim"
    /\ last.code = 201
    /\ \E c \in claims :
          /\ c.id = last.id
          /\ c.status = "pending"
          /\ \E cp \in client_products :
                /\ cp.client_id = c.client_id
                /\ cp.product_id = c.product_id
                /\ cp.status = "cancelled"
          /\ ~(\E cp \in client_products :
                  /\ cp.client_id = c.client_id
                  /\ cp.product_id = c.product_id
                  /\ cp.status = "active")

\* C26: every stored claim has an amount greater than zero.
C26_StoredAmountPositive ==
    \A c \in claims : c.amount > 0

\* A policy stored as active whose end date is before the current date, and
\* which the list of policies reports as expired.
Lapsed(cp) ==
    /\ cp.status = "active"
    /\ cp.end_date # NULL
    /\ cp.end_date < now[1]
    /\ \E r \in ListPolicies : r.id = cp.id /\ r.status = "expired"

\* C27: a lapsed policy still permits createClaim for its client and product,
\* and still blocks deleteClient of its client and deleteProduct of its
\* product with Conflict.
C27_StoredStatusDecides ==
    [][/\ \A c \in scenario.client_ids, p \in ProductIds, a \in scenario.amounts,
             d \in scenario.descriptions, n \in scenario.claim_numbers :
            (/\ \E cp \in client_products :
                    cp.client_id = c /\ cp.product_id = p /\ Lapsed(cp)
             /\ a >= 0 /\ d # ""
             /\ \E r \in products : r.id = p /\ a <= r.coverage
             /\ CreateClaim(c, p, a, d, n)
             /\ last'.code # 409)
               => /\ last'.code = 201
                  /\ \E r \in claims' \ claims :
                        r.client_id = c /\ r.product_id = p /\ r.status = "pending"
       /\ \A id \in scenario.client_ids :
            (/\ \E cp \in client_products : cp.client_id = id /\ Lapsed(cp)
             /\ DeleteClient(id))
               => /\ last'.code = 409
                  /\ UNCHANGED <<clients, client_products, claims>>
       /\ \A id \in ProductIds :
            (/\ \E cp \in client_products : cp.product_id = id /\ Lapsed(cp)
             /\ DeleteProduct(id))
               => /\ last'.code = 409
                  /\ UNCHANGED <<products, client_products, claims>>]_vars

\* C27 happens: a deleteClient was refused for a client whose only active
\* policy is lapsed, and who has no pending claim.
C27_Witness ==
    /\ last.op = "deleteClient"
    /\ last.code = 409
    /\ \E cp \in client_products : cp.client_id = last.id /\ Lapsed(cp)
    /\ \A cp \in client_products :
          (cp.client_id = last.id /\ cp.status = "active") => Lapsed(cp)
    /\ ~(\E c \in claims : c.client_id = last.id /\ c.status = "pending")

\* C28: the DELETE of a deleteClient removes no client that has an active
\* policy or a pending claim when the DELETE runs, whatever ran since the
\* request's check.
C28_NoDeleteWhileReferenced ==
    [][\A cb \in inflight :
         (/\ cb.op = "deleteClient"
          /\ DeleteClientRun(cb)
          /\ clients' # clients)
            => /\ ~(\E cp \in client_products :
                       cp.client_id = cb.id /\ cp.status = "active")
               /\ ~(\E c \in claims :
                       c.client_id = cb.id /\ c.status = "pending")]_vars

\* C29: a claim whose status is pending has no processed date.
C29_PendingHasNoProcessedDate ==
    \A c \in claims : c.status = "pending" => c.processed_date = NULL

\* The policies and claims that block the deletion of a client, counted from
\* the tables.
CountActivePoliciesOfClient(id) ==
    Cardinality({cp \in client_products : cp.client_id = id /\ cp.status = "active"})
CountPendingClaimsOfClient(id) ==
    Cardinality({c \in claims : c.client_id = id /\ c.status = "pending"})

\* C5: deleteClient on an existing client with at least one active policy or
\* at least one pending claim fails with Conflict, reports both counts and
\* leaves the client stored; with none of either it succeeds and the client
\* is removed.
C5_DeleteClientGuard ==
    [][\A id \in ClientIds :
         (ClientExists(id) /\ DeleteClient(id)) =>
            IF CountActivePoliciesOfClient(id) > 0 \/ CountPendingClaimsOfClient(id) > 0
            THEN /\ last'.code = 409
                 /\ last'.activePolicies = CountActivePoliciesOfClient(id)
                 /\ last'.pendingClaims = CountPendingClaimsOfClient(id)
                 /\ clients' = clients
            ELSE /\ last'.code = 200
                 /\ clients' = {c \in clients : c.id # id}]_vars

\* C5 happens: a deleteClient was refused for a client that has no active
\* policy but a pending claim.
C5_Witness ==
    /\ last.op = "deleteClient"
    /\ last.code = 409
    /\ last.activePolicies = 0
    /\ last.pendingClaims = 1
    /\ ClientExists(last.id)

\* C6: deleteProduct on an existing product fails with Conflict and leaves the
\* product stored when a policy referencing it is active; in every other case,
\* pending claims on the product included, it removes the product and
\* succeeds.
C6_DeleteProductGuard ==
    [][\A id \in ProductIds :
         (ProductExists(id) /\ DeleteProduct(id)) =>
            IF \E cp \in client_products : cp.product_id = id /\ cp.status = "active"
            THEN last'.code = 409 /\ products' = products
            ELSE last'.code = 200 /\ products' = {p \in products : p.id # id}]_vars

\* C6 happens: a product was deleted while a pending claim references it.
C6_Witness ==
    /\ last.op = "deleteProduct"
    /\ last.code = 200
    /\ ~ProductExists(last.id)
    /\ \E c \in claims : c.product_id = last.id /\ c.status = "pending"

\* d1 is a calendar day strictly before d2.
Before(d1, d2) ==
    \/ Year(d1) < Year(d2)
    \/ (Year(d1) = Year(d2) /\ Month(d1) < Month(d2))
    \/ (Year(d1) = Year(d2) /\ Month(d1) = Month(d2) /\ Day(d1) < Day(d2))

\* The status a consumer is to see: expired for a stored active policy whose
\* end date is set and before the current date, the stored status otherwise.
EffectiveStatus(cp) ==
    IF cp.status = "active" /\ cp.end_date # NULL /\ Before(cp.end_date, now[1])
    THEN "expired"
    ELSE cp.status

\* C7: every policy listPolicies returns carries status expired when its
\* stored status is active and its end date is set and strictly before the
\* current date, and its stored status in every other case.
C7_ListDerivesExpiry ==
    \A row \in ListPolicies :
        \E cp \in client_products :
            cp.id = row.id /\ row.status = EffectiveStatus(cp)

\* C7 happens: a policy stored active that ended on 2024-01-01 is listed as
\* expired on 2025-01-01.
C7_Witness ==
    \E row \in ListPolicies, cp \in client_products :
        /\ cp.id = row.id
        /\ cp.status = "active"
        /\ row.status = "expired"
        /\ cp.end_date = 20240101
        /\ now[1] = 20250101

\* C8: the other reads (by id, by status, the policies of a client) report
\* every policy with the status listPolicies reports for it.
C8_ReadsAgreeWithList ==
    \A row \in ListPolicies :
        /\ \A r \in GetPolicy(row.id) : r.status = row.status
        /\ \A s \in PolicyStatuses : \A r \in PoliciesByStatus(s) :
              r.id = row.id => r.status = row.status
        /\ \A c \in ClientIds : \A r \in ClientPolicies(c) :
              r.id = row.id => r.status = row.status

\* The date n calendar months after a date: the same day of the month, or the
\* last day of the target month when that month is shorter.
AddCalendarMonths(date, n) ==
    LET total == Year(date) * 12 + (Month(date) - 1) + n
        y == total \div 12
        m == (total % 12) + 1
        d == IF Day(date) > DaysInMonth(y, m) THEN DaysInMonth(y, m) ELSE Day(date)
    IN  MkDate(y, m, d)

\* C9: renewPolicy on an existing policy leaves it stored with status active
\* and with the new end date; on an absent policy it answers NotFound and
\* changes no policy.
C9_RenewActivates ==
    [][\A id \in PolicyIds, m \in Opt(scenario.periods), e \in Opt(scenario.end_dates) :
         RenewPolicy(id, m, e) =>
            IF PolicyExists(id)
            THEN \E cp \in client_products' :
                    /\ cp.id = id
                    /\ cp.status = "active"
                    /\ Has(e) => cp.end_date = Val(e)
            ELSE last'.code = 404 /\ client_products' = client_products]_vars

\* C10: renewPolicy without an explicit end date stores as end date the
\* current date plus the renewal period, 12 when none is given, in calendar
\* months.
C10_RenewDefaultEndDate ==
    [][\A id \in PolicyIds, m \in Opt(scenario.periods) :
         (PolicyExists(id) /\ RenewPolicy(id, m, {})) =>
            \E cp \in client_products' :
                /\ cp.id = id
                /\ cp.end_date = AddCalendarMonths(now[1], IF Has(m) THEN Val(m) ELSE 12)]_vars

====
